---- MODULE Spec2Model ----
(***************************************************************************)
(* ai-sdk-telemetry-collector: the batch sender (TelemetrySender), the     *)
(* collector facade (AITelemetryCollector) and the wrapper produced by     *)
(* AISDKIntegration.wrapAIFunction, as a state machine.                    *)
(*                                                                         *)
(* One step of the model is one run-to-completion turn of the JavaScript   *)
(* event loop: a call made by the host, a timer callback, or the           *)
(* continuation that runs when an awaited promise (the wrapped operation,  *)
(* a fetch, a setTimeout) settles.  Code that runs synchronously inside    *)
(* such a turn, including the synchronous prefix of every async function   *)
(* it calls, is part of the same step.                                     *)
(***************************************************************************)
EXTENDS Integers, Sequences, FiniteSets, TLC

\* ------------------------------------------------------------------ bounds
MaxRecords == 2       \* telemetry records created in one run
MaxBatchSize == 2     \* largest configured batchSize
MaxAttemptsCfg == 2   \* the configured retry.maxAttempts
MaxInv == 2           \* invocations of wrapped operations in one run
ContentLength == 6    \* the larger of the configured maxContentLength values
MaxChunks == 3        \* chunks the underlying stream produces

\* ------------------------------------------------------- program constants
DefaultMaxAttempts == 3
DefaultDelayMs == 1000
DefaultMaxContentLength == 10000
DefaultMaxOutputTokens == 1000
DefaultTemperature == 7        \* 0.7; temperatures are counted in tenths

VARIABLES
    config,            \* TelemetrySender.config (the fields the sender reads)
    batch,             \* TelemetrySender.batch: the pending queue
    batchTimer,        \* TelemetrySender.batchTimer: TRUE while an interval is armed
    isDestroyed,       \* TelemetrySender.isDestroyed
    connectionStatus,  \* TelemetrySender.connectionStatus
    lastError,         \* TelemetrySender.lastError ("null" or the error's kind)
    flights,           \* the activations of flushBatch still running, by number
    captured,          \* history: the batch each activation of flushBatch captured
    lastDone,          \* history: the activation of flushBatch that returned last
    nextId,            \* source of fresh uuids (record ids, batch ids)
    accepted,          \* history: the records pushed onto the queue, in order
    calls,             \* history: how the calls of the public API settled
    inv,               \* the invocations of wrapped operations
    collectorConfig,   \* AITelemetryCollector.config: the capture options
    isEnabled,         \* AITelemetryCollector.isEnabled
    spanProcessorRegistered,  \* whether the tracer provider calls our span processor
    ctx,               \* the TelemetryContext of one invocation, seen in detail
    tap                \* the stream tap of that invocation (setupStreamTelemetry)

vars == <<config, batch, batchTimer, isDestroyed, connectionStatus, lastError,
          flights, captured, lastDone, nextId, accepted, calls, inv,
          collectorConfig, isEnabled, spanProcessorRegistered, ctx, tap>>

\* ------------------------------------------------------------ sender state
\* The sender-side variables as one value, so that the synchronous call chains
\* of the code (sendCustomTelemetry -> sendTelemetry -> flushBatch -> sendBatch)
\* compose as functions.
Sender ==
    [config |-> config, batch |-> batch, batchTimer |-> batchTimer,
     isDestroyed |-> isDestroyed, connectionStatus |-> connectionStatus,
     lastError |-> lastError, flights |-> flights, captured |-> captured,
     lastDone |-> lastDone, nextId |-> nextId,
     accepted |-> accepted, calls |-> calls]

Commit(s) ==
    /\ config' = s.config
    /\ batch' = s.batch
    /\ batchTimer' = s.batchTimer
    /\ isDestroyed' = s.isDestroyed
    /\ connectionStatus' = s.connectionStatus
    /\ lastError' = s.lastError
    /\ flights' = s.flights
    /\ captured' = s.captured
    /\ lastDone' = s.lastDone
    /\ nextId' = s.nextId
    /\ accepted' = s.accepted
    /\ calls' = s.calls

\* const maxAttempts = this.config.retry?.maxAttempts || 3
maxAttempts(s) ==
    IF s.config.maxAttempts = 0 THEN DefaultMaxAttempts ELSE s.config.maxAttempts

\* const baseDelay = this.config.retry?.delayMs || 1000
baseDelay(s) ==
    IF s.config.delayMs = 0 THEN DefaultDelayMs ELSE s.config.delayMs

RECURSIVE Pow2(_)
\* Math.pow(2, n) for n >= 0
Pow2(n) == IF n <= 0 THEN 1 ELSE 2 * Pow2(n - 1)

ZeroUsage == [promptTokens |-> 0, completionTokens |-> 0, totalTokens |-> 0]

\* A call of the API rejects at once.  `w` names the outermost async call awaiting the chain:
\* w.op the function, w.by who called it ("host", "wrap" for the call made by
\* recordCompletion/recordError, whose promise nobody awaits, "timer" for the
\* interval callback), w.stage where sendCustomTelemetry stands.
Reject(s, w, cause) ==
    [s EXCEPT !.calls = @ \cup {[op |-> w.op, by |-> w.by, outcome |-> cause]}]

\* One call of sendBatch for flight f, up to its `await fetch(...)`: a fresh
\* batchId (uuidv4) wraps the captured events, size is their number, and the
\* request goes out.
sendBatch(s, f) ==
    [s EXCEPT !.flights[f].phase = "send",
              !.flights[f].sends = @ + 1,
              !.flights[f].batchIds = Append(@, <<f, s.flights[f].sends + 1>>),
              !.flights[f].size = Len(s.flights[f].events)]

\* f |-> fl added to (or replaced in) the running activations
WithFlight(fls, f, fl) ==
    [g \in DOMAIN fls \cup {f} |-> IF g = f THEN fl ELSE fls[g]]

\* f removed from the running activations
WithoutFlight(fls, f) == [g \in DOMAIN fls \ {f} |-> fls[g]]

NoFlight == [id |-> 0]

\* flushBatch without `this.batch = []`: the snapshot goes out, the queue stays.
flushBatch_noClear(s, w) ==
    IF s.batch = <<>> THEN s
    ELSE LET f == Len(s.captured) + 1
             fl == [id |-> f, events |-> s.batch, w |-> w, phase |-> "send",
                    inRetry |-> FALSE, attempt |-> 0, sends |-> 0,
                    delays |-> <<>>, batchIds |-> <<>>, size |-> 0,
                    outcome |-> "pending",
                    settled |-> "pending"]
             s1 == [s EXCEPT !.flights = WithFlight(@, f, fl),
                             !.captured = Append(@, s.batch)]
         IN sendBatch(s1, f)

\* flushBatch up to its first await: snapshot the queue, clear it, start the
\* first send.
flushBatch(s, w) ==
    IF s.batch = <<>> THEN s
    ELSE LET f == Len(s.captured) + 1
             fl == [id |-> f, events |-> s.batch, w |-> w, phase |-> "send",
                    inRetry |-> FALSE, attempt |-> 0, sends |-> 0,
                    delays |-> <<>>, batchIds |-> <<>>, size |-> 0,
                    outcome |-> "pending",
                    settled |-> "pending"]
             s1 == [s EXCEPT !.batch = <<>>,
                             !.flights = WithFlight(@, f, fl),
                             !.captured = Append(@, s.batch)]
         IN sendBatch(s1, f)

\* forceFlush up to its first await.
forceFlush(s, w) ==
    IF Len(s.batch) > 0 THEN flushBatch(s, w) ELSE s

\* What sendCustomTelemetry does once `await this.sender.sendTelemetry(...)`
\* has resolved (the debug-mode flush); every other caller just resolves.
AfterEnqueue(s, w) ==
    IF w.op = "sendCustomTelemetry" /\ w.stage = "enqueue" /\ s.config.debug
    THEN forceFlush(s, [w EXCEPT !.stage = "final"])
    ELSE s

\* sendTelemetry flushing only once the queue is longer than batchSize.
sendTelemetry_flushWhenOver(s, data, w) ==
    IF s.isDestroyed THEN Reject(s, w, "destroyed")
    ELSE LET s1 == [s EXCEPT !.batch = Append(@, data),
                             !.accepted = Append(@, data)]
         IN IF Len(s1.batch) > s1.config.batchSize
            THEN flushBatch(s1, w)
            ELSE AfterEnqueue(s1, w)

\* sendTelemetry up to its first await.
sendTelemetry(s, data, w) ==
    IF s.isDestroyed THEN Reject(s, w, "destroyed")
    ELSE LET s1 == [s EXCEPT !.batch = Append(@, data),
                             !.accepted = Append(@, data)]
         IN IF Len(s1.batch) >= s1.config.batchSize
            THEN flushBatch(s1, w)
            ELSE AfterEnqueue(s1, w)

\* AITelemetryCollector.sendCustomTelemetry: a new record with a fresh id and
\* defaults for the fields the caller left out, handed to the sender.
sendCustomTelemetry(s, data, by) ==
    sendTelemetry([s EXCEPT !.nextId = @ + 1],
                  [data EXCEPT !.id = s.nextId],
                  [op |-> "sendCustomTelemetry", by |-> by, stage |-> "enqueue"])

\* TelemetrySender.getConnectionStatus
getConnectionStatus ==
    [status |-> connectionStatus, lastError |-> lastError, batchSize |-> Len(batch)]

\* flushBatch returns normally: the promise its caller awaits resolves and the
\* caller's chain resumes.
FlightResolves(s, f) ==
    AfterEnqueue([s EXCEPT !.flights = WithoutFlight(@, f),
                           !.lastDone = [s.flights[f] EXCEPT !.phase = "done",
                                                             !.settled = "resolved"]],
                 s.flights[f].w)

\* flushBatch throws: the promise its caller awaits rejects, and with it every
\* async call up the chain (none of them catches).
FlightRejects(s, f) ==
    [s EXCEPT !.flights = WithoutFlight(@, f),
              !.lastDone = [s.flights[f] EXCEPT !.phase = "done",
                                                !.settled = "rejected"]]

\* A send of flight f succeeded (flushBatch l.74-75, retryBatch l.142-144).
\* A successful send that leaves lastError as it was.
sendSucceeded_keepsLastError(s, f) ==
    FlightResolves([s EXCEPT !.connectionStatus = "connected",
                             !.flights[f].outcome = "delivered"], f)

\* `await this.sendBatch(...)` returned, in flushBatch or in retryBatch: the
\* status becomes connected, lastError is cleared and the flush returns.
sendSucceeded(s, f) ==
    FlightResolves([s EXCEPT !.connectionStatus = "connected",
                             !.lastError = "null",
                             !.flights[f].outcome = "delivered"], f)

\* The catch block of flushBatch: the first send failed; retryBatch starts and
\* its attempt 1 sends at once (no delay for attempt 1).
flushBatchCatch(s, f, err) ==
    sendBatch([s EXCEPT !.connectionStatus = "error",
                        !.lastError = err,
                        !.flights[f].inRetry = TRUE,
                        !.flights[f].attempt = 1], f)

\* retryBatch rethrowing the error of its last attempt.
retryBatchCatch_rethrow(s, f, err) ==
    LET a == s.flights[f].attempt
        s1 == [s EXCEPT !.lastError = err]
    IN IF a = maxAttempts(s)
       THEN FlightRejects([s1 EXCEPT !.connectionStatus = "error",
                                     !.flights[f].outcome = "dropped"], f)
       ELSE [s1 EXCEPT !.flights[f].attempt = a + 1,
                       !.flights[f].phase = "delay",
                       !.flights[f].delays =
                           Append(@, baseDelay(s) * Pow2((a + 1) - 1))]

\* The catch block of retryBatch for the attempt that just failed, and the
\* loop's next iteration up to its setTimeout.
retryBatchCatch(s, f, err) ==
    LET a == s.flights[f].attempt
        s1 == [s EXCEPT !.lastError = err]
    IN IF a = maxAttempts(s)
       THEN FlightResolves([s1 EXCEPT !.connectionStatus = "error",
                                      !.flights[f].outcome = "dropped"], f)
       ELSE [s1 EXCEPT !.flights[f].attempt = a + 1,
                       !.flights[f].phase = "delay",
                       !.flights[f].delays =
                           Append(@, baseDelay(s) * Pow2((a + 1) - 1))]

\* An interval callback that empties the queue without sending it.
timerCallback_discards(s) ==
    IF Len(s.batch) > 0 THEN [s EXCEPT !.batch = <<>>] ELSE s

\* An interval callback that leaves the queue as it is.
timerCallback_idle(s) == s

\* The callback of the interval: if (this.batch.length > 0) await flushBatch()
timerCallback(s) ==
    IF Len(s.batch) > 0
    THEN flushBatch(s, [op |-> "timer", by |-> "timer", stage |-> "final"])
    ELSE s

\* setupBatchProcessing: clear the interval if one is armed, arm a new one.
setupBatchProcessing(s) == [s EXCEPT !.batchTimer = TRUE]

\* ---------------------------------------------------------------- inputs
BatchSizes == 1..MaxBatchSize
\* What the network answers to a request: a 2xx response, a non-2xx response,
\* or no response at all (fetch rejects).
SendResults == {"ok", "http", "neterr"}

\* if (!response.ok) throw ...
sendOk(res) == res \in {"ok", "okNoJson"}

\* A 2xx response whose body is not JSON.
BodyResults == {"okNoJson"}

\* const result = await response.json(): rejects when the body does not parse.
jsonParses(res) == res \notin BodyResults

\* A record the host built itself (no error entries in its metadata).
HostRecord ==
    [id |-> 0, inv |-> 0, usage |-> ZeroUsage,
     error |-> "undefined", errorType |-> "undefined"]

\* The argument lists a caller may pass to a wrapped operation: none, an options
\* object, an options object followed by a second argument.  An options object
\* with or without model and messages takes the same path through the wrapper
\* (options.messages || [] and extractModelInfo(undefined) give defaults).
ArgLists == {<<>>, <<"options">>, <<"options", "extra">>}

\* How a promise settles: resolved with a value or rejected with a thrown value.
\* Values: null (undefined behaves alike: reading a property of either throws),
\* a primitive, an immediate result {text, usage}, a streaming result with the
\* accessor toDataStreamResponse.  Thrown values: an Error, a string, null.
Resolved(v) == [kind |-> "resolve", val |-> v]
Rejected(e) == [kind |-> "reject", val |-> e]
Values == {"null", "primitive", "immediate", "streaming"}
Thrown == {"Error", "string", "null"}
Outcomes == {Resolved(v) : v \in Values} \cup {Rejected(e) : e \in Thrown}
NoOutcome == [kind |-> "pending", val |-> "none"]

\* The TypeError the engine raises when a property of null/undefined is read.
TypeError == Rejected("TypeError")

\* error.message and error.name of a thrown value that is not null
errMessage(e) ==
    IF e = "Error" THEN "boom" ELSE IF e = "TypeError" THEN "not an object"
    ELSE "undefined"
errName(e) == IF e \in {"Error", "TypeError"} THEN e ELSE "undefined"

\* --------------------------------------------------------------- wrapper
\* recordError builds the error record (usage zeroed, error and errorType read
\* from the thrown value) and hands it to sendCustomTelemetry, whose promise it
\* does not await.
recordError(s, i, e) ==
    sendCustomTelemetry(s, [id |-> 0, inv |-> i, usage |-> ZeroUsage,
                            error |-> errMessage(e), errorType |-> errName(e)],
                        "wrap")

\* recordCompletion builds the completion record with the usage the result
\* reports and hands it to sendCustomTelemetry, whose promise it does not await.
recordCompletion(s, i, usage) ==
    sendCustomTelemetry(s, [id |-> 0, inv |-> i, usage |-> usage,
                            error |-> "undefined", errorType |-> "undefined"],
                        "wrap")

\* Whether the step from sender state s to s2 pushed a record onto the queue.
Pushed(s, s2) == Len(s2.accepted) > Len(s.accepted)

\* The invocation record after the wrapper's code has run for it.
Invocation(a) ==
    [args |-> a, pc |-> "awaitOp", received |-> <<>>, opCalls |-> 0,
     op |-> NoOutcome, result |-> NoOutcome, internalError |-> FALSE,
     emitted |-> 0, stream |-> "none"]

\* The names of the operations handed to wrap(): the SDK's own and a mock's.
FuncNames == {"streamText", "generateText", "streamObject", "mockConstructor"}

\* isStreamTextFunction: typeof func === 'function'
isStreamTextFunction(funcName) == TRUE

\* wrapAIFunction picks the wrapper: the streamText test comes first and
\* isStreamTextFunction holds of every function.
wrapAIFunction(funcName) ==
    IF funcName = "streamText" \/ isStreamTextFunction(funcName)
    THEN "wrapStreamText"
    ELSE IF funcName = "generateText" THEN "wrapGenerateText"
    ELSE IF funcName = "streamObject" THEN "wrapStreamObject"
    ELSE "wrapGenericAIFunction"

\* The wrapper returned by wrapStreamText, called with argument list a, up to
\* `await originalStreamText(options)`.  Reading options.messages of a missing
\* options object throws before the try block; otherwise the operation is
\* called with the first argument alone.
wrapStreamTextCall(a) ==
    IF a = <<>>
    THEN [Invocation(a) EXCEPT !.pc = "settled", !.result = TypeError,
                               !.internalError = TRUE]
    ELSE [Invocation(a) EXCEPT !.received = <<a[1]>>, !.opCalls = 1]

\* wrapStreamResult(result, ctx): what reading result.toDataStreamResponse does.
wrapStreamResultThrows(v) == v = "null"

\* A wrapper that awaits the send its record started before it settles.
settle_awaitsSend(iv, s, s2, outcome) ==
    [iv EXCEPT !.pc = IF DOMAIN s2.flights # DOMAIN s.flights
                      THEN "awaitSend" ELSE "settled",
               !.result = outcome,
               !.emitted = IF Pushed(s, s2) THEN 1 ELSE 0]

\* The wrapper returns or throws after its telemetry calls: recordError and
\* wrapStreamResult return nothing the wrapper awaits, so the wrapped call
\* settles in the same turn, whatever the sender began (s: before, s2: after).
settle(iv, s, s2, outcome) ==
    [iv EXCEPT !.pc = "settled", !.result = outcome,
               !.emitted = IF Pushed(s, s2) THEN 1 ELSE 0]

\* The rest of the wrapper once the operation has settled with o, as the pair
\* of the new sender state and the new invocation record.
wrapStreamTextResume(s, i, iv, o) ==
    IF o.kind = "resolve"
    THEN IF wrapStreamResultThrows(o.val)
         THEN \* caught by the wrapper's own catch: recorded and rethrown
              LET s2 == recordError(s, i, "TypeError")
              IN [s |-> s2,
                  iv |-> settle([iv EXCEPT !.op = o, !.internalError = TRUE],
                                s, s2, TypeError)]
         ELSE [s |-> s,
               iv |-> settle([iv EXCEPT !.op = o,
                                        !.stream = IF o.val = "streaming"
                                                   THEN "wrapped" ELSE "none"],
                             s, s, o)]
    ELSE IF o.val = "null"
         THEN \* recordError reads error.message of null and throws
              [s |-> s,
               iv |-> settle([iv EXCEPT !.op = o, !.internalError = TRUE],
                             s, s, TypeError)]
         ELSE LET s2 == recordError(s, i, o.val)
              IN [s |-> s2,
                  iv |-> settle([iv EXCEPT !.op = o,
                                           !.internalError = ~Pushed(s, s2)],
                                s, s2, o)]

\* Whether the wrapper makes a record when the operation settles with o.
MakesRecord(o) ==
    \/ o.kind = "resolve" /\ wrapStreamResultThrows(o.val)
    \/ o.kind = "reject" /\ o.val # "null"

\* ------------------------------------------------------- content capture
\* Text is a sequence of one-character strings.  `undefined` is a value of its
\* own, different from every text, the empty text included.
Undefined == <<"undefined">>

\* The characters the regular expressions of truncateAndMaybeRedact tell apart
\* (case-insensitive; the texts drawn below hold no digit).
Letters == {"a", "c", "d", "e", "i", "l", "m", "r", "t"}
LocalChars == Letters \cup {".", "_", "%", "+", "-"}    \* [A-Z0-9._%+-]
DomainChars == Letters \cup {".", "-"}                  \* [A-Z0-9.-]

\* '[redacted-email]'
RedactedEmail ==
    <<"[", "r", "e", "d", "a", "c", "t", "e", "d", "-", "e", "m", "a", "i", "l", "]">>

\* The end of the longest run of characters of `set` that starts at s[i]
\* (i - 1 when s[i] is not in `set`).
RunEnd(s, i, set) ==
    CHOOSE j \in (i - 1)..Len(s) :
        /\ \A k \in i..j : s[k] \in set
        /\ j = Len(s) \/ s[j + 1] \notin set

\* /[A-Z0-9._%+-]+@[A-Z0-9.-]+\.[A-Z]{2,}/ tried at position i of s: the end of
\* the match, or 0.  The local part is the greedy run before the "@"; the
\* domain is greedy too, so the dot that starts the top-level domain is the
\* last one of the domain run that at least two letters follow.
EmailMatchEnd(s, i) ==
    LET le == RunEnd(s, i, LocalChars)
    IN IF le < i \/ le >= Len(s) \/ s[le + 1] # "@" THEN 0
       ELSE LET d0 == le + 2
                de == RunEnd(s, d0, DomainChars)
                dots == {j \in (d0 + 1)..de :
                            s[j] = "." /\ RunEnd(s, j + 1, Letters) >= j + 2}
            IN IF dots = {} THEN 0
               ELSE LET j == CHOOSE x \in dots : \A y \in dots : y <= x
                    IN RunEnd(s, j + 1, Letters)

RECURSIVE replaceEmails(_, _)
\* out.replace(/...email.../gi, '[redacted-email]') from position i on: every
\* match, leftmost first, none overlapping.  The two other replacements
\* (key-like tokens of 13 characters and more, runs of 13 to 16 digits) find
\* nothing in texts without digits and without "key".
replaceEmails(s, i) ==
    IF i > Len(s) THEN <<>>
    ELSE LET e == EmailMatchEnd(s, i)
         IN IF e > 0 THEN RedactedEmail \o replaceEmails(s, e + 1)
            ELSE <<s[i]>> \o replaceEmails(s, i + 1)

\* text.slice(0, n)
slice(text, n) == SubSeq(text, 1, n)

\* truncateAndMaybeRedact without the slice.
truncateAndMaybeRedact_noSlice(text, cfg) ==
    IF text = Undefined \/ text = <<>> THEN text
    ELSE IF cfg.redactSensitiveData THEN replaceEmails(text, 1) ELSE text

\* AISDKIntegration.truncateAndMaybeRedact
truncateAndMaybeRedact(text, cfg) ==
    IF text = Undefined \/ text = <<>> THEN text
    ELSE LET out == IF Len(text) > cfg.maxContentLength
                    THEN slice(text, cfg.maxContentLength) ELSE text
         IN IF cfg.redactSensitiveData THEN replaceEmails(out, 1) ELSE out

RECURSIVE firstWithRole(_, _)
\* A loop that keeps the first message with the role instead of the last.
firstWithRole(messages, role) ==
    IF messages = <<>> THEN Undefined
    ELSE IF Head(messages).role = role THEN Head(messages).content
    ELSE firstWithRole(Tail(messages), role)

RECURSIVE lastWithRole(_, _)
\* The loop of extractPrompts for one role: the content of the last message
\* that has it, undefined when there is none.
lastWithRole(messages, role) ==
    IF messages = <<>> THEN Undefined
    ELSE LET m == messages[Len(messages)]
         IN IF m.role = role THEN m.content
            ELSE lastWithRole(SubSeq(messages, 1, Len(messages) - 1), role)

\* lastUser ?? ''
orEmpty(text) == IF text = Undefined THEN <<>> ELSE text

\* AISDKIntegration.extractPrompts
extractPrompts(messages, cfg) ==
    [userPrompt |->
         IF cfg.capturePrompts = FALSE THEN Undefined
         ELSE truncateAndMaybeRedact(orEmpty(lastWithRole(messages, "user")), cfg),
     systemPrompt |->
         IF cfg.captureSystemPrompt = FALSE THEN Undefined
         ELSE truncateAndMaybeRedact(orEmpty(lastWithRole(messages, "system")), cfg)]

\* JavaScript truthiness of a string or undefined
Truthy(text) == text # Undefined /\ text # <<>>

\* { ...a, ...b }
Spread(a, b) ==
    [k \in DOMAIN a \cup DOMAIN b |-> IF k \in DOMAIN b THEN b[k] ELSE a[k]]

\* An object with the given keys, empty when `on` is false.
Keys(on, obj) == IF on THEN obj ELSE <<>>

\* buildCapturedMetadata without its tests of the capture flags.
buildCapturedMetadata_ignoresFlags(c, resultText, cfg) ==
    LET prompt == c.userPrompt
        sys == c.systemPrompt
        resp == IF c.responseContent # Undefined THEN c.responseContent
                ELSE IF Truthy(resultText) THEN resultText ELSE Undefined
        safeResp == truncateAndMaybeRedact(resp, cfg)
        m1 == Keys(Truthy(prompt),
                   [prompt |-> prompt, promptLength |-> Len(prompt),
                    hasUserPrompt |-> TRUE])
        m2 == Keys(Truthy(sys),
                   [systemPrompt |-> sys, systemPromptLength |-> Len(sys),
                    hasSystemPrompt |-> TRUE])
        m3 == Keys(Truthy(resp),
                   [response |-> safeResp, responseLength |-> Len(safeResp),
                    hasResponse |-> TRUE])
        m4 == Keys(c.messages.defined, [messageCount |-> Len(c.messages.list)])
    IN Spread(Spread(Spread(m1, m2), m3), m4)

\* AISDKIntegration.buildCapturedMetadata; resultText is result?.text.
buildCapturedMetadata(c, resultText, cfg) ==
    LET prompt == c.userPrompt
        sys == c.systemPrompt
        resp == IF c.responseContent # Undefined THEN c.responseContent
                ELSE IF Truthy(resultText) THEN resultText ELSE Undefined
        safeResp == truncateAndMaybeRedact(resp, cfg)
        m1 == Keys(cfg.capturePrompts # FALSE /\ Truthy(prompt),
                   [prompt |-> prompt, promptLength |-> Len(prompt),
                    hasUserPrompt |-> TRUE])
        m2 == Keys(cfg.captureSystemPrompt # FALSE /\ Truthy(sys),
                   [systemPrompt |-> sys, systemPromptLength |-> Len(sys),
                    hasSystemPrompt |-> TRUE])
        m3 == Keys(cfg.captureResponses # FALSE /\ Truthy(resp),
                   [response |-> safeResp, responseLength |-> Len(safeResp),
                    hasResponse |-> TRUE])
        m4 == Keys(c.messages.defined, [messageCount |-> Len(c.messages.list)])
    IN Spread(Spread(Spread(m1, m2), m3), m4)

\* The capture options a collector is constructed with unless told otherwise.
DefaultCaptureConfig ==
    [capturePrompts |-> TRUE, captureResponses |-> TRUE,
     captureSystemPrompt |-> TRUE, maxContentLength |-> DefaultMaxContentLength,
     redactSensitiveData |-> FALSE]

\* A numeric option of the call: left out, or given with a value.
Absent == [defined |-> FALSE, val |-> 0]
Given(n) == [defined |-> TRUE, val |-> n]

\* x || d for a numeric option x: undefined and 0 are falsy.
OrElse(x, d) == IF x.defined /\ x.val # 0 THEN x.val ELSE d

\* extractSettings: maxOutputTokens and temperature read from the options.
extractSettings(options) ==
    [maxOutputTokens |->
         OrElse(options.maxTokens,
                OrElse(options.maxOutputTokens, DefaultMaxOutputTokens)),
     temperature |-> OrElse(options.temperature, DefaultTemperature)]

\* No invocation is followed in detail.
NoCtx == [pc |-> "none"]
NoTap == [state |-> "none"]

\* The TelemetryContext wrapStreamText builds from the options.
telemetryContext(options, cfg) ==
    LET p == extractPrompts(IF options.messages.defined
                            THEN options.messages.list ELSE <<>>, cfg)
    IN [settings |-> extractSettings(options),
        metadata |-> options.metadata, messages |-> options.messages,
        userPrompt |-> p.userPrompt, systemPrompt |-> p.systemPrompt,
        responseContent |-> Undefined, firstChunkTime |-> FALSE, chunkCount |-> 0]

\* The record recordError builds for context c and thrown value e.
errorRecord(c, e, cfg) ==
    [id |-> 0, inv |-> 0, usage |-> ZeroUsage,
     error |-> errMessage(e), errorType |-> errName(e),
     settings |-> c.settings,
     performance |-> [msToFirstChunk |-> FALSE, chunkCount |-> 0],
     metadata |-> Spread(Spread(c.metadata, buildCapturedMetadata(c, Undefined, cfg)),
                         [error |-> errMessage(e), errorType |-> errName(e)])]

\* result.usage || { promptTokens: 0, completionTokens: 0, totalTokens: 0 }
usageOrZero(u) == IF u.defined THEN u.val ELSE ZeroUsage

\* A value of type number: the fraction num/den, or one of the two values a
\* division by zero yields.
Finite(num, den) == [kind |-> "finite", num |-> num, den |-> den]
Infinity == [kind |-> "Infinity", num |-> 1, den |-> 0]
NaN == [kind |-> "NaN", num |-> 0, den |-> 0]

\* x / y on finite numbers, as the language computes it: no exception, a zero
\* divisor gives Infinity, or NaN for 0 / 0.
Divide(x, y) ==
    IF y.num # 0 THEN Finite(x.num * y.den, x.den * y.num)
    ELSE IF x.num = 0 THEN NaN
    ELSE Infinity

\* result.usage?.completionTokens ? (completionTokens / (responseTime / 1000)) : 0
avgCompletionTokensPerSecond(usage, responseTime) ==
    IF usage.defined /\ usage.val.completionTokens # 0
    THEN Divide(Finite(usage.val.completionTokens, 1),
                Divide(Finite(responseTime, 1), Finite(1000, 1)))
    ELSE Finite(0, 1)

\* The performance block of recordCompletion.  msToFirstChunk is TRUE for the
\* measured difference firstChunkTime - startTime and FALSE for the 0 written
\* when the context holds no firstChunkTime.
performance(c) ==
    [msToFirstChunk |-> c.firstChunkTime,
     msToFinish |-> c.responseTime,
     avgCompletionTokensPerSecond |->
         avgCompletionTokensPerSecond(c.finishUsage, c.responseTime),
     chunkCount |-> c.chunkCount]

\* recordCompletion spreading the caller's metadata over the captured content.
completionRecord_callerWins(c, resultText, cfg) ==
    [id |-> 0, inv |-> 0, usage |-> usageOrZero(c.finishUsage),
     error |-> "undefined", errorType |-> "undefined",
     settings |-> c.settings,
     performance |-> performance(c),
     metadata |-> Spread(buildCapturedMetadata(c, resultText, cfg), c.metadata)]

\* The record recordCompletion builds for context c when onFinish is called
\* with a result of the given text and of usage c.finishUsage, c.responseTime
\* milliseconds after the start of the call.
completionRecord(c, resultText, cfg) ==
    [id |-> 0, inv |-> 0, usage |-> usageOrZero(c.finishUsage),
     error |-> "undefined", errorType |-> "undefined",
     settings |-> c.settings,
     performance |-> performance(c),
     metadata |-> Spread(c.metadata, buildCapturedMetadata(c, resultText, cfg))]

\* A pump whose controller.enqueue sits inside the try block of the decoding.
pumpChunk_enqueueInsideTry(tp, chunk, cfg) ==
    [tp EXCEPT !.source = Tail(@),
               !.firstChunkTime = @ \/ chunk.kind # "empty",
               !.chunkCount = @ + 1,
               !.responseContent =
                   IF chunk.kind = "bytes" /\ cfg.captureResponses # FALSE
                   THEN @ \o chunk.text ELSE @,
               !.queue = IF chunk.kind = "string" /\ cfg.captureResponses # FALSE
                         THEN @ ELSE Append(@, chunk)]

\* One iteration of the pump of setupStreamTelemetry that read `chunk`: the
\* first-chunk time, the chunk counter, the accumulated text, then
\* controller.enqueue(value).  Decoding a chunk that is not a buffer throws
\* inside the inner try and adds nothing.
pumpChunk(tp, chunk, cfg) ==
    [tp EXCEPT !.source = Tail(@),
               !.firstChunkTime = @ \/ chunk.kind # "empty",
               !.chunkCount = @ + 1,
               !.responseContent =
                   IF chunk.kind = "bytes" /\ cfg.captureResponses # FALSE
                   THEN @ \o chunk.text ELSE @,
               !.queue = Append(@, chunk)]

\* The pump's catch block, entered when a read of the underlying stream
\* rejects: controller.error(error) puts the tapped stream into the errored
\* state with that error, and an errored stream drops the chunks still queued.
pumpCatch(tp) == [tp EXCEPT !.state = "errored", !.queue = <<>>]

\* The pump's branch for `done`: what it stores in the context.
pumpDone(c, tp, cfg) ==
    [c EXCEPT !.firstChunkTime = IF tp.firstChunkTime THEN TRUE ELSE @,
              !.chunkCount = IF tp.firstChunkTime THEN tp.chunkCount ELSE @,
              !.responseContent =
                  IF cfg.captureResponses # FALSE
                  THEN truncateAndMaybeRedact(tp.responseContent, cfg) ELSE @]

\* ---------------------------------------------------------------- actions
\* The host calls sender.sendTelemetry(data) with a record of its own.
SendTelemetry ==
    /\ nextId <= MaxRecords
    /\ Commit(sendTelemetry([Sender EXCEPT !.nextId = @ + 1],
                            [HostRecord EXCEPT !.id = nextId],
                            [op |-> "sendTelemetry", by |-> "host", stage |-> "final"]))
    /\ UNCHANGED <<inv, collectorConfig, isEnabled, spanProcessorRegistered, ctx, tap>>

\* The host calls collector.sendCustomTelemetry(data).
SendCustomTelemetry ==
    /\ nextId <= MaxRecords
    /\ Commit(sendCustomTelemetry(Sender, HostRecord, "host"))
    /\ UNCHANGED <<inv, collectorConfig, isEnabled, spanProcessorRegistered, ctx, tap>>

\* The interval set by setupBatchProcessing fires and its callback runs.
TimerFires ==
    /\ batchTimer
    /\ Commit(timerCallback(Sender))
    /\ UNCHANGED <<inv, collectorConfig, isEnabled, spanProcessorRegistered, ctx, tap>>

\* The fetch of flight f settles: res is what the network answered.
SendCompletes(f, res) ==
    /\ f \in DOMAIN flights
    /\ flights[f].phase = "send"
    /\ Commit(IF sendOk(res) /\ jsonParses(res) THEN sendSucceeded(Sender, f)
              ELSE IF ~flights[f].inRetry THEN flushBatchCatch(Sender, f, res)
              ELSE retryBatchCatch(Sender, f, res))
    /\ UNCHANGED <<inv, collectorConfig, isEnabled, spanProcessorRegistered, ctx, tap>>

\* The backoff timer of flight f expires: the attempt's send goes out.
DelayElapses(f) ==
    /\ f \in DOMAIN flights
    /\ flights[f].phase = "delay"
    /\ Commit(sendBatch(Sender, f))
    /\ UNCHANGED <<inv, collectorConfig, isEnabled, spanProcessorRegistered, ctx, tap>>

\* The host calls sender.forceFlush().
ForceFlush ==
    /\ Commit(forceFlush(Sender, [op |-> "forceFlush", by |-> "host", stage |-> "final"]))
    /\ UNCHANGED <<inv, collectorConfig, isEnabled, spanProcessorRegistered, ctx, tap>>

\* destroy without `await this.forceFlush()`: the flag is set and the timer
\* cleared, the pending records stay where they are.
Destroy_noFlush ==
    /\ Commit([Sender EXCEPT !.isDestroyed = TRUE, !.batchTimer = FALSE])
    /\ UNCHANGED <<inv, collectorConfig, isEnabled, spanProcessorRegistered, ctx, tap>>

\* The host calls destroy().
Destroy ==
    /\ Commit(forceFlush([Sender EXCEPT !.isDestroyed = TRUE, !.batchTimer = FALSE],
                         [op |-> "destroy", by |-> "host", stage |-> "final"]))
    /\ UNCHANGED <<inv, collectorConfig, isEnabled, spanProcessorRegistered, ctx, tap>>

\* The host calls updateConfig with a new batchSize.
UpdateConfig(bs) ==
    /\ Commit(setupBatchProcessing([Sender EXCEPT !.config.batchSize = bs]))
    /\ UNCHANGED <<inv, collectorConfig, isEnabled, spanProcessorRegistered, ctx, tap>>

\* testConnection flushing the pending records once the probe has answered.
TestConnection_flushes(res) ==
    /\ Commit(forceFlush([Sender EXCEPT !.connectionStatus =
                                            IF sendOk(res) THEN "connected" ELSE "error"],
                         [op |-> "testConnection", by |-> "host", stage |-> "final"]))
    /\ UNCHANGED <<inv, collectorConfig, isEnabled, spanProcessorRegistered, ctx, tap>>

\* A health probe completes.
TestConnection(res) ==
    /\ Commit(IF sendOk(res)
              THEN [Sender EXCEPT !.connectionStatus = "connected"]
              ELSE IF res = "http"
              THEN [Sender EXCEPT !.connectionStatus = "error"]
              ELSE [Sender EXCEPT !.connectionStatus = "error", !.lastError = res])
    /\ UNCHANGED <<inv, collectorConfig, isEnabled, spanProcessorRegistered, ctx, tap>>

\* A caller calls a wrapped operation with argument list a.
Call(a) ==
    /\ Len(inv) < MaxInv
    /\ \E n \in FuncNames : wrapAIFunction(n) = "wrapStreamText"
    /\ inv' = Append(inv, wrapStreamTextCall(a))
    /\ UNCHANGED <<config, batch, batchTimer, isDestroyed, connectionStatus,
                   lastError, flights, captured, lastDone, nextId, accepted, calls,
                   collectorConfig, isEnabled, spanProcessorRegistered, ctx, tap>>

\* The underlying operation of invocation i settles with outcome o and the
\* wrapper's continuation runs to its end: the wrapped call settles.
OpSettles(i, o) ==
    /\ inv[i].pc = "awaitOp"
    /\ MakesRecord(o) => nextId <= MaxRecords
    /\ LET r == wrapStreamTextResume(Sender, i, inv[i], o)
       IN /\ Commit(r.s)
          /\ inv' = [inv EXCEPT ![i] = r.iv]
    /\ UNCHANGED <<collectorConfig, isEnabled, spanProcessorRegistered, ctx, tap>>

\* The caller materializes the stream of a streaming result
\* (result.toDataStreamResponse()): setupStreamTelemetry taps the body and
\* installs onFinish on the response.
Materialize(i) ==
    /\ inv[i].stream = "wrapped"
    /\ inv' = [inv EXCEPT ![i].stream = "open"]
    /\ UNCHANGED <<config, batch, batchTimer, isDestroyed, connectionStatus,
                   lastError, flights, captured, lastDone, nextId, accepted, calls,
                   collectorConfig, isEnabled, spanProcessorRegistered, ctx, tap>>

\* The consumer reads the tapped stream to its end: the pump sees done, stores
\* the timings in the context and closes the stream.
StreamEnds(i) ==
    /\ inv[i].stream = "open"
    /\ inv' = [inv EXCEPT ![i].stream = "ended"]
    /\ UNCHANGED <<config, batch, batchTimer, isDestroyed, connectionStatus,
                   lastError, flights, captured, lastDone, nextId, accepted, calls,
                   collectorConfig, isEnabled, spanProcessorRegistered, ctx, tap>>

\* Somebody calls response.onFinish(result), the completion signal.
OnFinish(i) ==
    /\ inv[i].stream \in {"open", "ended"}
    /\ nextId <= MaxRecords
    /\ LET s2 == recordCompletion(Sender, i, ZeroUsage)
       IN /\ Commit(s2)
          /\ inv' = [inv EXCEPT ![i].emitted = IF Pushed(Sender, s2) THEN @ + 1 ELSE @,
                                ![i].internalError = @ \/ ~Pushed(Sender, s2)]
    /\ UNCHANGED <<collectorConfig, isEnabled, spanProcessorRegistered, ctx, tap>>

\* The collector after construction: not enabled, no span processor registered.
InitCollector ==
    /\ isEnabled = FALSE
    /\ spanProcessorRegistered = FALSE

\* The sender after construction.
InitSender(configs) ==
    /\ config \in configs
    /\ batch = <<>>
    /\ batchTimer = TRUE
    /\ isDestroyed = FALSE
    /\ connectionStatus = "disconnected"
    /\ lastError = "null"
    /\ flights = <<>>
    /\ captured = <<>>
    /\ lastDone = NoFlight
    /\ nextId = 1
    /\ accepted = <<>>
    /\ calls = {}

Init ==
    /\ InitSender([batchSize : BatchSizes, maxAttempts : {MaxAttemptsCfg},
                   delayMs : {100}, debug : BOOLEAN])
    /\ inv = <<>>
    /\ collectorConfig = DefaultCaptureConfig
    /\ InitCollector
    /\ ctx = NoCtx
    /\ tap = NoTap

Next ==
    \/ SendTelemetry
    \/ SendCustomTelemetry
    \/ TimerFires
    \/ \E f \in DOMAIN flights, res \in SendResults : SendCompletes(f, res)
    \/ \E f \in DOMAIN flights : DelayElapses(f)
    \/ ForceFlush
    \/ Destroy

Spec == Init /\ [][Next]_vars

\* The sender with a server that may also answer 2xx with a body that is not
\* JSON.
NextBody ==
    \/ Next
    \/ \E f \in DOMAIN flights, res \in BodyResults : SendCompletes(f, res)

SpecBody == Init /\ [][NextBody]_vars

\* The sender under the scheduling of the event loop: a timer that is armed
\* fires (the setInterval of setupBatchProcessing, the setTimeout of a backoff
\* delay).  Nothing makes the host call the sender, and nothing makes a fetch
\* settle: sendBatch passes no signal and sets no timer of its own.
SpecFair ==
    /\ Init
    /\ [][Next]_vars
    /\ WF_vars(TimerFires)
    /\ \A f \in 1..MaxRecords : WF_vars(DelayElapses(f))

\* The sender fed by the host and by wrapped operations that fail.
NextAll ==
    \/ Next
    \/ Call(<<"options">>)
    \/ \E i \in 1..Len(inv) : OpSettles(i, Rejected("Error"))

SpecAll == Init /\ [][NextAll]_vars

\* The sender with its configuration updated and its connection probed as well.
NextAdmin ==
    \/ Next
    \/ \E bs \in BatchSizes : UpdateConfig(bs)
    \/ \E res \in SendResults : TestConnection(res)

SpecAdmin == Init /\ [][NextAdmin]_vars

\* The wrapper under every kind of argument list and outcome, with the sender
\* driven by the wrapper's records, the timer, the network and destroy.
NextWrap ==
    \/ \E a \in ArgLists : Call(a)
    \/ \E i \in 1..Len(inv), o \in Outcomes : OpSettles(i, o)
    \/ \E i \in 1..Len(inv) : Materialize(i)
    \/ \E i \in 1..Len(inv) : StreamEnds(i)
    \/ \E i \in 1..Len(inv) : OnFinish(i)
    \/ TimerFires
    \/ \E f \in DOMAIN flights : SendCompletes(f, "ok")
    \/ Destroy

SpecWrap == Init /\ [][NextWrap]_vars

\* ------------------------------------------- one invocation, in detail
senderVars == <<config, batch, batchTimer, isDestroyed, connectionStatus,
                lastError, flights, captured, lastDone, nextId, accepted, calls>>

\* The wrapper is called with the options object drawn for this run and builds
\* its TelemetryContext; the operation is called and awaited.
WrapperCalled ==
    /\ ctx.pc = "new"
    /\ ctx' = Spread(ctx, Spread(telemetryContext(ctx.options, collectorConfig),
                                 [pc |-> "awaitOp"]))
    /\ UNCHANGED <<senderVars, inv, collectorConfig, isEnabled, spanProcessorRegistered, tap>>

\* The operation rejects with an Error: recordError, then the wrapper rethrows.
OperationFails ==
    /\ ctx.pc = "awaitOp"
    /\ ctx.outcome = "error"
    /\ nextId <= MaxRecords
    /\ Commit(sendCustomTelemetry(Sender, errorRecord(ctx, "Error", collectorConfig),
                                  "wrap"))
    /\ ctx' = [ctx EXCEPT !.pc = "settled"]
    /\ UNCHANGED <<inv, collectorConfig, isEnabled, spanProcessorRegistered, tap>>

\* The operation resolves with a streaming result: wrapStreamResult replaces
\* its accessors and the wrapper returns it.
OperationStreams ==
    /\ ctx.pc = "awaitOp"
    /\ ctx.outcome = "stream"
    /\ ctx' = [ctx EXCEPT !.pc = "settled"]
    /\ UNCHANGED <<senderVars, inv, collectorConfig, isEnabled, spanProcessorRegistered, tap>>

\* The operation resolves with an immediate result (text and usage, no stream
\* accessor): wrapStreamResult finds no accessor to replace and the wrapper
\* returns the result as it is.
OperationReturns ==
    /\ ctx.pc = "awaitOp"
    /\ ctx.outcome = "immediate"
    /\ ctx' = [ctx EXCEPT !.pc = "settled"]
    /\ UNCHANGED <<senderVars, inv, collectorConfig, isEnabled, spanProcessorRegistered, tap>>

\* The caller materializes the response: setupStreamTelemetry locks the body,
\* puts the tapped stream in its place and starts the pump.
MaterializeStream ==
    /\ ctx.pc = "settled"
    /\ ctx.outcome = "stream"
    /\ tap.state = "idle"
    /\ tap' = [tap EXCEPT !.state = "open"]
    /\ UNCHANGED <<senderVars, inv, collectorConfig, isEnabled, spanProcessorRegistered, ctx>>

\* A read of the pump settles: with the next chunk of the underlying stream,
\* or, when there is none left, with done or with the stream's failure.
PumpReads ==
    /\ tap.state = "open"
    /\ IF tap.source = <<>> /\ tap.fails
       THEN /\ tap' = pumpCatch(tap)
            /\ ctx' = ctx
       ELSE IF tap.source = <<>>
       THEN /\ ctx' = pumpDone(ctx, tap, collectorConfig)
            /\ tap' = [tap EXCEPT !.state = "closed"]
       ELSE /\ tap' = pumpChunk(tap, Head(tap.source), collectorConfig)
            /\ ctx' = ctx
    /\ UNCHANGED <<senderVars, inv, collectorConfig, isEnabled, spanProcessorRegistered>>

\* The consumer of the tapped stream reads the next chunk.
ConsumerReads ==
    /\ tap.state \in {"open", "closed"}
    /\ tap.queue # <<>>
    /\ tap' = [tap EXCEPT !.queue = Tail(@), !.delivered = Append(@, Head(tap.queue))]
    /\ UNCHANGED <<senderVars, inv, collectorConfig, isEnabled, spanProcessorRegistered, ctx>>

\* The consumer reads the errored stream: the read rejects with the error the
\* pump passed to controller.error.
ConsumerSeesError ==
    /\ tap.state = "errored"
    /\ ~tap.sawError
    /\ tap' = [tap EXCEPT !.sawError = TRUE]
    /\ UNCHANGED <<senderVars, inv, collectorConfig, isEnabled, spanProcessorRegistered, ctx>>

\* Somebody calls response.onFinish(result) with the result drawn for this run.
CallOnFinish ==
    /\ tap.state \in {"open", "closed", "errored"}
    /\ nextId <= MaxRecords
    /\ Commit(sendCustomTelemetry(
                  Sender, completionRecord(ctx, ctx.finishText, collectorConfig), "wrap"))
    /\ UNCHANGED <<inv, collectorConfig, isEnabled, spanProcessorRegistered, ctx, tap>>

NextCapture ==
    \/ WrapperCalled
    \/ OperationFails
    \/ OperationStreams
    \/ OperationReturns
    \/ MaterializeStream
    \/ PumpReads
    \/ ConsumerReads
    \/ ConsumerSeesError
    \/ CallOnFinish

\* The input texts: empty, short, an e-mail address, one longer than
\* ContentLength, one whose e-mail address starts before ContentLength
\* characters and ends after.
Plain == <<"a", "a">>
Email == <<"a", "@", "a", ".", "a", "a">>
LongText == [k \in 1..(ContentLength + 2) |-> "a"]
LateEmail == [k \in 1..(ContentLength - 3) |-> " "] \o Email
Texts == {<<>>, Plain, Email, LongText, LateEmail}

NoMessages == [defined |-> FALSE, list |-> <<>>]
Messages(list) == [defined |-> TRUE, list |-> list]
\* The role of a message that has none (msg.role is undefined or empty).
NoRole == ""

MessageLists ==
    {NoMessages, Messages(<<>>)}
    \cup {Messages(<<[role |-> "system", content |-> s],
                     [role |-> "user", content |-> u]>>) :
              s \in {Plain, Email}, u \in Texts}
    \cup {Messages(<<[role |-> "user", content |-> LongText],
                     [role |-> "assistant", content |-> Plain],
                     [role |-> "user", content |-> u]>>) : u \in {Plain, Email}}
    \cup {Messages(<<[role |-> "system", content |-> Email],
                     [role |-> "user", content |-> Email],
                     [role |-> NoRole, content |-> LongText],
                     [role |-> "system", content |-> Plain],
                     [role |-> "user", content |-> Plain],
                     [role |-> NoRole, content |-> Email]>>)}

\* experimental_telemetry.metadata of the caller: none, entries of its own (one
\* of them under a name the error record uses), or entries under the names the
\* captured content uses.
CallerMetadata ==
    {<<>>, [userId |-> Plain, error |-> Plain],
     [prompt |-> Plain, systemPrompt |-> Plain, response |-> Plain]}

CaptureConfigs ==
    [capturePrompts : BOOLEAN, captureResponses : BOOLEAN,
     captureSystemPrompt : BOOLEAN, maxContentLength : {2, ContentLength},
     redactSensitiveData : BOOLEAN]

\* A chunk of the underlying stream: the n-th, of a kind (bytes that decode to
\* text, a value TextDecoder rejects, a falsy value), with its text.
Chunk(n, kind, text) == [n |-> n, kind |-> kind, text |-> text]
ChunkKinds == {"bytes", "string", "empty"}

\* The generation settings of the call: each left out, 0, or a positive value
\* (temperature 0.8, maxTokens 2000, maxOutputTokens 500).
NoSettings == [temperature |-> Absent, maxTokens |-> Absent, maxOutputTokens |-> Absent]
SettingsInputs ==
    [temperature : {Absent, Given(0), Given(8)},
     maxTokens : {Absent, Given(0), Given(2000)},
     maxOutputTokens : {Absent, Given(500)}]

\* The usage a result reports: none, or token counts.
NoUsage == [defined |-> FALSE, val |-> ZeroUsage]
ReportedUsage == [promptTokens |-> 10, completionTokens |-> 5, totalTokens |-> 15]
ResultUsages == {NoUsage, [defined |-> TRUE, val |-> ReportedUsage]}

\* An invocation whose onFinish, if it is called, gets a result with the text
\* finishText and the usage finishUsage, responseTime milliseconds after the
\* start of the call (Date.now() - startTime).
NewTimedCtx(options, outcome, finishText, finishUsage, responseTime) ==
    [pc |-> "new", options |-> options, outcome |-> outcome, finishText |-> finishText,
     finishUsage |-> finishUsage, responseTime |-> responseTime]

\* The same with a result that reports no usage, one millisecond after the start.
NewCtx(options, outcome, finishText) ==
    NewTimedCtx(options, outcome, finishText, NoUsage, 1)

\* An invocation whose operation resolves to the immediate result {text, usage}.
NewImmediateCtx(options, text, usage) ==
    Spread(NewCtx(options, "immediate", text), [usage |-> usage])

NewTap(produced) ==
    [state |-> "idle", produced |-> produced, source |-> produced, queue |-> <<>>,
     delivered |-> <<>>, firstChunkTime |-> FALSE, chunkCount |-> 0,
     responseContent |-> <<>>, fails |-> FALSE, sawError |-> FALSE]

\* The tap of a stream that fails once it has produced its chunks.
NewFailingTap(produced) == [NewTap(produced) EXCEPT !.fails = TRUE]

QuietSender ==
    [batchSize : {MaxBatchSize}, maxAttempts : {MaxAttemptsCfg},
     delayMs : {100}, debug : {FALSE}]

\* One invocation with every capture configuration, message list and caller
\* metadata, failing, streaming a text in one chunk, or returning an immediate
\* result.
InitCapture ==
    /\ InitSender(QuietSender)
    /\ inv = <<>>
    /\ collectorConfig \in CaptureConfigs
    /\ InitCollector
    /\ \E m \in MessageLists, md \in CallerMetadata :
           \/ /\ \E o \in {"error", "stream"}, ft \in {Undefined, Email} :
                     ctx = NewCtx(Spread([messages |-> m, metadata |-> md], NoSettings),
                                  o, ft)
              /\ \/ \E text \in Texts :
                        tap = NewTap(IF text = <<>> THEN <<>>
                                     ELSE <<Chunk(1, "bytes", text)>>)
                 \/ tap = NewFailingTap(<<Chunk(1, "bytes", Plain)>>)
           \/ /\ \E text \in {Plain, Email}, u \in ResultUsages :
                     ctx = NewImmediateCtx(Spread([messages |-> m, metadata |-> md],
                                                  NoSettings), text, u)
              /\ tap = NewTap(<<>>)

SpecCapture == InitCapture /\ [][NextCapture]_vars

\* The chunk sequences of up to MaxChunks chunks of every kind.
ChunkSeqs ==
    UNION {[1..n -> ChunkKinds] : n \in 0..MaxChunks}

\* One invocation whose stream produces any sequence of chunks and then ends
\* or fails, with response capture on or off and with every choice of
\* generation settings.
InitTap ==
    /\ InitSender(QuietSender)
    /\ inv = <<>>
    /\ collectorConfig \in
           {[DefaultCaptureConfig EXCEPT !.captureResponses = b,
                                         !.maxContentLength = ContentLength] :
                b \in BOOLEAN}
    /\ InitCollector
    /\ \E st \in SettingsInputs :
           LET options ==
                   Spread([messages |-> Messages(<<[role |-> "user", content |-> Plain]>>),
                           metadata |-> <<>>], st)
           IN \/ \E o \in {"error", "stream"} : ctx = NewCtx(options, o, Undefined)
              \/ \E u \in ResultUsages : ctx = NewImmediateCtx(options, Plain, u)
    /\ \E kinds \in ChunkSeqs :
           LET produced == [n \in 1..Len(kinds) |-> Chunk(n, kinds[n], Plain)]
           IN tap \in {NewTap(produced), NewFailingTap(produced)}

SpecTap == InitTap /\ [][NextCapture]_vars

\* One invocation under the default capture options whose stream produces up
\* to MaxChunks chunks of text and then ends or fails.
InitStream ==
    /\ InitSender(QuietSender)
    /\ inv = <<>>
    /\ collectorConfig = [DefaultCaptureConfig EXCEPT !.maxContentLength = ContentLength]
    /\ InitCollector
    /\ LET options ==
               Spread([messages |-> Messages(<<[role |-> "user", content |-> Plain]>>),
                       metadata |-> <<>>], NoSettings)
       IN \/ \E o \in {"error", "stream"} : ctx = NewCtx(options, o, Undefined)
          \/ \E u \in ResultUsages : ctx = NewImmediateCtx(options, Plain, u)
    /\ \E n \in 0..MaxChunks :
           LET produced == [k \in 1..n |-> Chunk(k, "bytes", Plain)]
           IN tap \in {NewTap(produced), NewFailingTap(produced)}

\* That invocation with the scheduling of the event loop: a step of the
\* wrapper or of the pump that can run does run, and the consumer keeps
\* reading.  Nothing makes the caller materialize the stream or call onFinish.
\* The elapsed times of a call, in milliseconds: none measurable, and up to
\* MaxElapsed.
MaxElapsed == 2
ElapsedTimes == 0..MaxElapsed

\* One streamed invocation under the default capture options for every usage
\* the result handed to onFinish may report (none, all zero, token counts) and
\* every elapsed time, and the failing and immediate outcomes.
InitPerf ==
    /\ InitSender(QuietSender)
    /\ inv = <<>>
    /\ collectorConfig = [DefaultCaptureConfig EXCEPT !.maxContentLength = ContentLength]
    /\ InitCollector
    /\ LET options ==
               Spread([messages |-> Messages(<<[role |-> "user", content |-> Plain]>>),
                       metadata |-> <<>>], NoSettings)
       IN \/ \E u \in ResultUsages \cup {[defined |-> TRUE, val |-> ZeroUsage]},
                ms \in ElapsedTimes :
                 ctx = NewTimedCtx(options, "stream", Plain, u, ms)
          \/ ctx = NewCtx(options, "error", Undefined)
          \/ \E u \in ResultUsages : ctx = NewImmediateCtx(options, Plain, u)
    /\ \E n \in 0..1 :
           LET produced == [k \in 1..n |-> Chunk(k, "bytes", Plain)]
           IN tap \in {NewTap(produced), NewFailingTap(produced)}

SpecPerf == InitPerf /\ [][NextCapture]_vars

SpecStreamFair ==
    /\ InitStream
    /\ [][NextCapture]_vars
    /\ WF_vars(WrapperCalled)
    /\ WF_vars(OperationFails)
    /\ WF_vars(OperationStreams)
    /\ WF_vars(OperationReturns)
    /\ WF_vars(PumpReads)
    /\ WF_vars(ConsumerReads)
    /\ WF_vars(ConsumerSeesError)

\* --------------------------------------- the collector switched on and off
\* The host calls collector.enable(): the span processor is handed to the
\* tracer provider, which takes it when it has addSpanProcessor.
Enable ==
    /\ ~isEnabled
    /\ isEnabled' = TRUE
    /\ spanProcessorRegistered' \in {TRUE, spanProcessorRegistered}
    /\ UNCHANGED <<senderVars, inv, collectorConfig, ctx, tap>>

\* The host calls collector.disable(): the span processor is taken back from
\* the tracer provider when the provider has removeSpanProcessor.
Disable ==
    /\ isEnabled
    /\ isEnabled' = FALSE
    /\ spanProcessorRegistered' \in {FALSE, spanProcessorRegistered}
    /\ calls' = calls \cup {[op |-> "disable", by |-> "host", outcome |-> "done"]}
    /\ UNCHANGED <<config, batch, batchTimer, isDestroyed, connectionStatus,
                   lastError, flights, captured, lastDone, nextId, accepted,
                   inv, collectorConfig, ctx, tap>>

\* A span of the AI SDK ends: the provider calls onEnd of the registered
\* processor, processSpan extracts a record and hands it to the sender.
SpanEnds ==
    /\ spanProcessorRegistered
    /\ nextId <= MaxRecords
    /\ Commit(sendTelemetry([Sender EXCEPT !.nextId = @ + 1],
                            [HostRecord EXCEPT !.id = nextId],
                            [op |-> "processSpan", by |-> "span", stage |-> "final"]))
    /\ UNCHANGED <<inv, collectorConfig, isEnabled, spanProcessorRegistered, ctx, tap>>

\* Wrapped operations, spans, the timer and the network, with the collector
\* enabled and disabled at any moment.
NextEnable ==
    \/ Enable
    \/ Disable
    \/ SpanEnds
    \/ Call(<<"options">>)
    \/ \E i \in 1..Len(inv), o \in {Rejected("Error"), Resolved("streaming")} :
           OpSettles(i, o)
    \/ \E i \in 1..Len(inv) : Materialize(i)
    \/ \E i \in 1..Len(inv) : OnFinish(i)
    \/ TimerFires
    \/ \E f \in DOMAIN flights : SendCompletes(f, "ok")

SpecEnable == Init /\ [][NextEnable]_vars

\* ================================================================ claims
Invs == 1..Len(inv)
IsSettled(i) == inv[i].pc = "settled"

\* The records of invocation i that the sender accepted.
RecordsOf(i) == {k \in 1..Len(accepted) : accepted[k].inv = i}

\* C1: wrap(O)(A) settles the way O(A) does, for every argument list and every
\* outcome of O: a settled call has called O and carries O's own outcome (the
\* value O resolved with or the very error O rejected with).
C1_Transparent ==
    \A i \in Invs : IsSettled(i) => inv[i].opCalls = 1 /\ inv[i].result = inv[i].op

\* An invocation of the mix C2 speaks of: called with an options object, and
\* the operation returned an immediate result, failed with an Error, or
\* returned a streaming result whose stream was consumed to its end.
InMix(i) ==
    /\ IsSettled(i)
    /\ inv[i].args = <<"options">>
    /\ \/ inv[i].op = Resolved("immediate")
       \/ inv[i].op = Rejected("Error")
       \/ inv[i].op = Resolved("streaming") /\ inv[i].stream = "ended"

\* C2: every invocation of the mix has enqueued exactly one record (while the
\* sender lives), so N of them have enqueued exactly N.
C2_ExactlyOnce ==
    ~isDestroyed =>
        /\ \A i \in Invs : InMix(i) => inv[i].emitted = 1 /\ Cardinality(RecordsOf(i)) = 1
        /\ (\A i \in Invs : InMix(i)) => Len(accepted) = Len(inv)

\* C3: when the operation rejects with E, the wrapped call rejects with E and
\* exactly one record is enqueued for it (while the sender lives), with zero
\* usage and with E's message and name as error and errorType.
C3_ErrorRecord ==
    ~isDestroyed =>
        \A i \in Invs :
            IsSettled(i) /\ inv[i].op.kind = "reject" =>
                /\ inv[i].result = inv[i].op
                /\ Cardinality(RecordsOf(i)) = 1
                /\ \A k \in RecordsOf(i) :
                       /\ accepted[k].usage = ZeroUsage
                       /\ accepted[k].error = errMessage(inv[i].op.val)
                       /\ accepted[k].errorType = errName(inv[i].op.val)

\* C4: an exception raised inside the telemetry code while it handles an
\* invocation does not reach the caller: the call settles with the outcome of
\* the operation itself.
C4_Isolated ==
    \A i \in Invs :
        IsSettled(i) /\ inv[i].internalError =>
            inv[i].op # NoOutcome /\ inv[i].result = inv[i].op

\* C7: every call of a wrapped operation has called the underlying operation
\* exactly once, with the argument list the caller passed.
C7_CalledOnceSameArgs ==
    \A i \in Invs : inv[i].opCalls = 1 /\ inv[i].received = inv[i].args

Failures == {"http", "neterr"}

\* What one step may do to the callers when sends fail: an activation of
\* flushBatch that ends returns normally (so the sendTelemetry,
\* sendCustomTelemetry, forceFlush or destroy call awaiting it resolves), and
\* if it gave the batch up the failure shows in connectionStatus and lastError;
\* the only calls that reject do so because the sender is destroyed; a wrapped
\* call that has settled carries the operation's own outcome.
NoRejectionStep ==
    /\ lastDone' # lastDone =>
           /\ lastDone'.settled = "resolved"
           /\ lastDone'.outcome = "dropped" =>
                  connectionStatus' = "error" /\ lastError' \in Failures
    /\ \A c \in calls' : c.outcome = "destroyed"
    /\ \A i \in 1..Len(inv') :
           inv'[i].pc = "settled" => inv'[i].result = inv'[i].op

\* C5: when network sends fail (fetch rejects or the response is not 2xx), no
\* call of sendTelemetry, sendCustomTelemetry, forceFlush, destroy or of a
\* wrapped operation rejects because of it; the failure is visible only through
\* connectionStatus and lastError.
C5_SendFailureNeverThrown == [][NoRejectionStep]_vars

\* A batch was given up after every one of its sends failed, the destroy() call
\* that awaited it has returned, and a wrapped call has settled meanwhile.
C5_Witness ==
    /\ lastDone # NoFlight
    /\ lastDone.outcome = "dropped"
    /\ lastDone.sends = 1 + MaxAttemptsCfg
    /\ lastDone.w.op = "destroy"
    /\ connectionStatus = "error"
    /\ \E i \in Invs : IsSettled(i)

\* The invocations whose record is in a send that has not completed.
InRunningSend(i) ==
    \E f \in DOMAIN flights :
        \E k \in 1..Len(flights[f].events) : flights[f].events[k].inv = i

\* C6: the call of a wrapped operation settles in the step in which the
\* underlying operation settles, without waiting for any send: whenever the
\* operation has settled the call has too, also while the send carrying its
\* record is still waiting for the network or is inside the retry loop.
C6_SettlesWithoutWaiting ==
    \A i \in Invs :
        /\ inv[i].op # NoOutcome => IsSettled(i)
        /\ InRunningSend(i) => IsSettled(i)

\* A wrapped call has settled although the send that carries its record is in
\* the retry loop, waiting for the network.
C6_Witness ==
    \E i \in Invs, f \in DOMAIN flights :
        /\ IsSettled(i)
        /\ flights[f].inRetry
        /\ flights[f].phase = "send"
        /\ flights[f].w.by = "wrap"
        /\ \E k \in 1..Len(flights[f].events) : flights[f].events[k].inv = i

\* An enqueue that brings the queue to batchSize (with batchSize = 1: every
\* enqueue) captures exactly those records as a new batch, starts its send and
\* leaves the queue empty.
SizeFlushStep ==
    (/\ Len(accepted') = Len(accepted) + 1
     /\ Len(batch) + 1 = config.batchSize \/ config.batchSize = 1) =>
        /\ batch' = <<>>
        /\ Len(captured') = Len(captured) + 1
        /\ captured'[Len(captured')] = Append(batch, accepted'[Len(accepted')])
        /\ Len(captured'[Len(captured')]) = config.batchSize
        /\ Len(captured') \in DOMAIN flights'
        /\ flights'[Len(captured')].events = captured'[Len(captured')]
        /\ flights'[Len(captured')].sends = 1

TimerStep ==
    TimerFires =>
        IF batch = <<>>
        THEN UNCHANGED <<batch, captured, flights, accepted>>
        ELSE /\ batch' = <<>>
             /\ captured' = Append(captured, batch)
             /\ Len(captured') \in DOMAIN flights'
             /\ flights'[Len(captured')].events = batch
             /\ flights'[Len(captured')].sends = 1
             /\ flights'[Len(captured')].w.op = "timer"

\* C9: with between 1 and batchSize-1 records pending, the next firing of the
\* periodic timer captures a batch holding exactly the pending records; a
\* firing on an empty queue sends nothing.
C9_TimeTriggeredFlush == [][TimerStep]_vars

\* The timer has flushed a queue that was not full.
C9_Witness ==
    \E f \in DOMAIN flights :
        /\ flights[f].w.op = "timer"
        /\ Len(flights[f].events) >= 1
        /\ Len(flights[f].events) < config.batchSize
        /\ batch = <<>>

RECURSIVE Flatten(_)
\* The concatenation of a sequence of sequences
Flatten(ss) == IF ss = <<>> THEN <<>> ELSE Head(ss) \o Flatten(Tail(ss))

\* C10: under every interleaving of enqueue, timer, forceFlush and destroy,
\* also with sends and retry loops in flight, each enqueued record sits in
\* exactly one place: the captured batches followed by the queue are the
\* enqueued records, in order and without repetition, and every running send
\* carries the batch it captured.
C10_CapturedExactlyOnce ==
    /\ Flatten(captured) \o batch = accepted
    /\ \A j, k \in 1..Len(accepted) : accepted[j].id = accepted[k].id => j = k
    /\ \A c \in 1..Len(captured) : captured[c] # <<>>
    /\ \A f \in DOMAIN flights : f \in 1..Len(captured) /\ flights[f].events = captured[f]

\* Two batches have been captured, the second by destroy(), while the first is
\* still in its retry loop.
C10_Witness ==
    /\ Len(captured) >= 2
    /\ isDestroyed
    /\ \E f, g \in DOMAIN flights :
           /\ f < g
           /\ flights[f].inRetry
           /\ flights[g].w.op = "destroy"

\* The activations of flushBatch that run, and the one that returned last.
KnownFlights ==
    {flights[f] : f \in DOMAIN flights} \cup
    (IF lastDone = NoFlight THEN {} ELSE {lastDone})

\* C11: a batch all of whose sends failed was sent exactly maxAttempts times in
\* total, the first send made by the flush included, and then dropped: none
\* of its records is back in the pending queue.
C11_ExactlyMaxAttempts ==
    \A fl \in KnownFlights :
        fl.outcome = "dropped" =>
            /\ fl.sends = maxAttempts(Sender)
            /\ \A k \in 1..Len(batch), e \in 1..Len(fl.events) :
                   batch[k].id # fl.events[e].id

\* The waiting times of an activation before its total attempts 2, 3, ...: the
\* first attempt of retryBatch follows the failed send without a setTimeout
\* (`if (attempt > 1)`), the later ones wait the delay computed for them.
Waits(fl) == IF fl.inRetry THEN <<0>> \o fl.delays ELSE <<>>

\* C12: for a batch whose sends keep failing, the waiting time before total
\* attempt k (k >= 2) is baseDelay * 2^(k-2): baseDelay before the second
\* attempt, twice that before the third, and so on.
C12_BackoffDelays ==
    \A fl \in KnownFlights :
        \A k \in 2..(Len(Waits(fl)) + 1) :
            Waits(fl)[k - 1] = baseDelay(Sender) * Pow2(k - 2)

\* C13: after destroy() every enqueue fails with the misuse error, the error
\* reaches the code that made the call (the host awaiting its call; never the
\* promise of the wrapper's call, which nobody awaits), and the pending queue
\* is left unchanged.
C13_EnqueueAfterDestroyReported ==
    [][isDestroyed =>
          /\ batch' = batch
          /\ accepted' = accepted
          /\ nextId' # nextId => \E c \in calls' : c.outcome = "destroyed"
          /\ \A c \in calls' : c.outcome = "destroyed" => c.by = "host"]_vars

C15_InertIsTerminal ==
    [][isDestroyed =>
          /\ getConnectionStatus.status = "inert"
          /\ getConnectionStatus'.status = getConnectionStatus.status]_vars

\* C16: a step of testConnection sets the connection status (connected when
\* the probe answers 2xx, error otherwise) and leaves the pending queue, the
\* captured batches, the running sends, the timer and the configuration as
\* they were: no record is added, removed or reordered and nothing is flushed.
C16_TestConnectionOnlyStatus ==
    [][\A res \in SendResults :
          TestConnection(res) =>
              /\ connectionStatus' = IF sendOk(res) THEN "connected" ELSE "error"
              /\ UNCHANGED <<batch, captured, flights, accepted, lastDone, nextId,
                             batchTimer, isDestroyed, config, calls>>]_vars

\* A probe has answered while records were pending and nothing was flushed.
C16_Witness ==
    /\ connectionStatus = "connected"
    /\ batch # <<>>
    /\ captured = <<>>
    /\ flights = <<>>

\* The capture flag, the presence flag and the input of each captured string.
ContentKeys == {"prompt", "systemPrompt", "response"}
FlagOf(key) ==
    CASE key = "prompt" -> collectorConfig.capturePrompts
      [] key = "systemPrompt" -> collectorConfig.captureSystemPrompt
      [] key = "response" -> collectorConfig.captureResponses
PresenceOf(key) ==
    CASE key = "prompt" -> "hasUserPrompt"
      [] key = "systemPrompt" -> "hasSystemPrompt"
      [] key = "response" -> "hasResponse"
InputOf(key) ==
    CASE key = "prompt" -> orEmpty(lastWithRole(ctx.options.messages.list, "user"))
      [] key = "systemPrompt" -> orEmpty(lastWithRole(ctx.options.messages.list, "system"))
      [] key = "response" -> IF ctx.responseContent # Undefined
                             THEN tap.responseContent ELSE ctx.finishText

\* C17: with a capture flag false, whatever the messages and the caller's
\* metadata, no emitted record has the key of that flag in its metadata.
C17_NoKeyWhenFlagOff ==
    \A k \in 1..Len(accepted), key \in ContentKeys :
        FlagOf(key) = FALSE => key \notin DOMAIN accepted[k].metadata

\* C17 as the code has it: with a capture flag false the collector puts no
\* entry of its own under that key; the key is in the record exactly when the
\* caller's own metadata has it, and then with the caller's value.
C17_NoCapturedKeyWhenFlagOff ==
    \A k \in 1..Len(accepted), key \in ContentKeys :
        FlagOf(key) = FALSE =>
            /\ PresenceOf(key) \notin DOMAIN accepted[k].metadata
            /\ key \in DOMAIN accepted[k].metadata <=> key \in DOMAIN ctx.options.metadata
            /\ key \in DOMAIN accepted[k].metadata =>
                   accepted[k].metadata[key] = ctx.options.metadata[key]

\* A record was built from a conversation with a user prompt and from a result
\* with a text while the prompt and response flags were off, and has neither key.
C17_Witness ==
    /\ collectorConfig.capturePrompts = FALSE
    /\ collectorConfig.captureResponses = FALSE
    /\ ctx.pc = "settled"
    /\ InputOf("prompt") = Email
    /\ ctx.finishText = Email
    /\ ctx.outcome = "stream"
    /\ \E k \in 1..Len(accepted) :
           /\ "prompt" \notin DOMAIN accepted[k].metadata
           /\ "response" \notin DOMAIN accepted[k].metadata
           /\ "messageCount" \in DOMAIN accepted[k].metadata

\* A record is built and enqueued in this step.
RecordBuilt == Len(accepted') = Len(accepted) + 1
NewMetadata == accepted'[Len(accepted')].metadata

\* The content keys whose entry in the record is the collector's own.
CapturedKeys(md) == {key \in ContentKeys : PresenceOf(key) \in DOMAIN md}

\* C18: every captured string of a record is at most maxContentLength long,
\* with redaction on or off; an input longer than that yields exactly
\* maxContentLength characters when redaction is off.
C18_LengthAtMostMax ==
    [][RecordBuilt =>
         \A key \in CapturedKeys(NewMetadata) :
             /\ Len(NewMetadata[key]) <= collectorConfig.maxContentLength
             /\ (Len(InputOf(key)) > collectorConfig.maxContentLength
                 /\ ~collectorConfig.redactSensitiveData) =>
                    Len(NewMetadata[key]) = collectorConfig.maxContentLength]_vars

\* What one replacement can add: the marker is longer than the shortest
\* address it replaces.
MarkerExcess == Len(RedactedEmail) - Len(Email)

\* C18 as the code has it: with redaction off a captured string is at most
\* maxContentLength long, exactly that for a longer input; with redaction on
\* the markers are put in after the cut, so the string may be longer, by at
\* most MarkerExcess for every address the cut text has room for.
C18_LengthBound ==
    [][RecordBuilt =>
         \A key \in CapturedKeys(NewMetadata) :
             IF collectorConfig.redactSensitiveData
             THEN Len(NewMetadata[key]) <=
                      collectorConfig.maxContentLength
                      + MarkerExcess * (collectorConfig.maxContentLength \div Len(Email))
             ELSE /\ Len(NewMetadata[key]) <= collectorConfig.maxContentLength
                  /\ Len(InputOf(key)) > collectorConfig.maxContentLength =>
                         Len(NewMetadata[key]) = collectorConfig.maxContentLength]_vars

\* A prompt longer than maxContentLength was captured with redaction off and
\* is exactly maxContentLength long in the record.
C18_Witness ==
    /\ ~collectorConfig.redactSensitiveData
    /\ ctx.pc = "settled"
    /\ InputOf("prompt") = LongText
    /\ \E k \in 1..Len(accepted) :
           /\ "hasUserPrompt" \in DOMAIN accepted[k].metadata
           /\ Len(accepted[k].metadata.prompt) = collectorConfig.maxContentLength
           /\ accepted[k].metadata.promptLength = collectorConfig.maxContentLength

\* C19: each captured string of a record is the input truncated to
\* maxContentLength and then redacted, once: the truncated input itself with
\* redaction off, the marker in the place of an e-mail address that survived
\* the cut with redaction on.
C19_TruncateThenRedactOnce ==
    [][RecordBuilt =>
         \A key \in CapturedKeys(NewMetadata) :
             /\ NewMetadata[key] = truncateAndMaybeRedact(InputOf(key), collectorConfig)
             /\ ~collectorConfig.redactSensitiveData =>
                    NewMetadata[key] =
                        IF Len(InputOf(key)) > collectorConfig.maxContentLength
                        THEN slice(InputOf(key), collectorConfig.maxContentLength)
                        ELSE InputOf(key)
             /\ (/\ collectorConfig.redactSensitiveData
                 /\ InputOf(key) = Email
                 /\ collectorConfig.maxContentLength >= Len(Email)) =>
                    NewMetadata[key] = RedactedEmail]_vars

C21_ImmediateResultRecorded ==
    (ctx.pc = "settled" /\ ctx.outcome = "immediate") =>
        /\ Len(accepted) = 1
        /\ accepted[1].usage = usageOrZero(ctx.usage)
        /\ collectorConfig.captureResponses =>
               /\ "response" \in DOMAIN accepted[1].metadata
               /\ accepted[1].metadata.response =
                      truncateAndMaybeRedact(ctx.finishText, collectorConfig)
        /\ (collectorConfig.capturePrompts /\ Truthy(InputOf("prompt"))) =>
               /\ "prompt" \in DOMAIN accepted[1].metadata
               /\ accepted[1].metadata.prompt =
                      truncateAndMaybeRedact(InputOf("prompt"), collectorConfig)
        /\ (collectorConfig.captureSystemPrompt /\ Truthy(InputOf("systemPrompt"))) =>
               /\ "systemPrompt" \in DOMAIN accepted[1].metadata
               /\ accepted[1].metadata.systemPrompt =
                      truncateAndMaybeRedact(InputOf("systemPrompt"), collectorConfig)

\* C22: while the collector is disabled after a call of disable(), no record
\* is enqueued, neither by an ended span nor by a wrapped operation.
C22_NothingCollectedWhileDisabled ==
    [][(/\ ~isEnabled
        /\ ~isEnabled'
        /\ \E c \in calls : c.op = "disable") => accepted' = accepted]_vars

\* The settings of the record a step built.
NewSettings == accepted'[Len(accepted')].settings

\* C23: the settings of a record are the settings the caller passed:
\* settings.temperature is options.temperature whenever that was supplied, 0
\* included, and settings.maxOutputTokens is a supplied value of
\* options.maxTokens or options.maxOutputTokens whenever one was supplied.
C23_SettingsAsPassed ==
    [][RecordBuilt =>
          LET o == ctx.options
          IN /\ o.temperature.defined => NewSettings.temperature = o.temperature.val
             /\ (o.maxTokens.defined \/ o.maxOutputTokens.defined) =>
                    \/ /\ o.maxTokens.defined
                       /\ NewSettings.maxOutputTokens = o.maxTokens.val
                    \/ /\ o.maxOutputTokens.defined
                       /\ NewSettings.maxOutputTokens = o.maxOutputTokens.val]_vars

\* The record a step built, and whether it is an error record.
NewRecord == accepted'[Len(accepted')]
ErrorEntries(rec) == IF rec.error = "undefined" THEN {} ELSE {"error", "errorType"}

\* C24: the metadata of a record holds every key of the caller's metadata and
\* every captured-content entry; under a key both define it holds the
\* captured-content value, under the caller's other keys the caller's value
\* (the error and errorType entries of an error record come on top of both).
C24_CallerMetadataMerged ==
    [][RecordBuilt =>
          LET caller == ctx.options.metadata
              content == buildCapturedMetadata(
                             ctx,
                             IF ErrorEntries(NewRecord) = {} THEN ctx.finishText
                             ELSE Undefined,
                             collectorConfig)
          IN /\ DOMAIN caller \cup DOMAIN content \subseteq DOMAIN NewMetadata
             /\ \A k \in DOMAIN content \ ErrorEntries(NewRecord) :
                    NewMetadata[k] = content[k]
             /\ \A k \in DOMAIN caller \ (DOMAIN content \cup ErrorEntries(NewRecord)) :
                    NewMetadata[k] = caller[k]]_vars

\* A completion record was built for a caller whose metadata has a prompt
\* entry of its own, and the record holds the captured prompt in its place.
C24_Witness ==
    /\ "prompt" \in DOMAIN ctx.options.metadata
    /\ \E k \in 1..Len(accepted) :
           /\ accepted[k].error = "undefined"
           /\ "hasUserPrompt" \in DOMAIN accepted[k].metadata
           /\ accepted[k].metadata.prompt # ctx.options.metadata.prompt

\* C25: all the sends made for one flush carry the same batch: one batchId and
\* the events captured by the flush, in their order, whatever was enqueued
\* while the retries ran.
C25_SameBatchEveryAttempt ==
    \A fl \in KnownFlights :
        /\ fl.events = captured[fl.id]
        /\ \A j, k \in 1..Len(fl.batchIds) : fl.batchIds[j] = fl.batchIds[k]

\* The steps in which a send or a health probe completes, well or badly.
SendSucceeds == \E f \in DOMAIN flights : SendCompletes(f, "ok")
SendFails(res) == \E f \in DOMAIN flights : SendCompletes(f, res)

\* C26: the connection status starts as disconnected; a step changes it to
\* connected only if a send or a probe succeeded in it, and to error only if
\* a send or a probe failed in it; a step in which a send succeeded leaves
\* status connected and lastError cleared, a step in which a send failed
\* leaves that failure in lastError.
C26_StatusFollowsSends ==
    /\ connectionStatus = "disconnected"
    /\ [][/\ (connectionStatus' # connectionStatus /\ connectionStatus' = "connected")
               => (SendSucceeds \/ TestConnection("ok"))
          /\ (connectionStatus' # connectionStatus /\ connectionStatus' = "error")
               => \E res \in Failures : SendFails(res) \/ TestConnection(res)
          /\ connectionStatus' \in {"connected", "error", connectionStatus}
          /\ SendSucceeds => (connectionStatus' = "connected" /\ lastError' = "null")
          /\ \A res \in Failures : SendFails(res) => lastError' = res]_vars

\* A batch was delivered by a retry after its first send had failed: the
\* status is connected and the failure is no longer in lastError.
C26_Witness ==
    /\ lastDone # NoFlight
    /\ lastDone.outcome = "delivered"
    /\ lastDone.sends >= 2
    /\ flights = <<>>
    /\ connectionStatus = "connected"
    /\ lastError = "null"

\* The completion records in the queue's history.
CompletionRecords == {k \in 1..Len(accepted) : accepted[k].error = "undefined"}
ErrorRecords == {k \in 1..Len(accepted) : accepted[k].error # "undefined"}

\* C27: once the tapped stream has ended and the consumer has read all of its
\* chunks (one at least), a completion record is eventually enqueued, whatever the caller does or
\* does not do afterwards, and it carries the number of chunks the tap counted
\* and the time to first chunk it measured.
C27_RecordAtStreamEnd ==
    (tap.state = "closed" /\ tap.queue = <<>> /\ tap.produced # <<>>) ~>
        \E k \in CompletionRecords :
            /\ accepted[k].performance.chunkCount = tap.chunkCount
            /\ accepted[k].performance.msToFirstChunk = tap.firstChunkTime

\* C28: at most one record is emitted for a streaming invocation, however many
\* completion events occur.
C28_AtMostOneRecord ==
    ctx.outcome = "stream" => Len(accepted) <= 1

\* C29: once the underlying stream has failed after its chunks and the
\* consumer has met the error, the consumer has received every chunk produced
\* before the failure, and the invocation has its record: exactly one error
\* record, carrying the partial chunk count, unless a record was emitted
\* before the failure.
C29_StreamErrorReported ==
    (tap.state = "errored" /\ tap.sawError) =>
        /\ tap.delivered = tap.produced
        /\ Len(accepted) >= 1
        /\ Cardinality(ErrorRecords) <= 1
        /\ \A k \in ErrorRecords :
               accepted[k].performance.chunkCount = Len(tap.produced)
        /\ (CompletionRecords = {}) => Cardinality(ErrorRecords) = 1

\* C30: the tapped stream never holds more than one chunk that the pump has
\* read from the underlying stream and the consumer has not yet taken.
C30_NoBuffering ==
    tap.state \in {"open", "closed"} => Len(tap.queue) <= 1

\* The positions of the messages of the call that have the given role.
WithRole(role) ==
    {i \in 1..Len(ctx.options.messages.list) : ctx.options.messages.list[i].role = role}
Last(positions) == CHOOSE i \in positions : \A j \in positions : j <= i

\* C31: once the wrapper has built its context with the prompt flags on, the
\* captured userPrompt is the content of the message at the last position
\* with role user, and the captured systemPrompt that of the last position
\* with role system (cut to maxContentLength and redacted as configured),
\* whatever other messages the list holds.
C31_LastUserAndSystemMessage ==
    ctx.pc \in {"awaitOp", "settled"} =>
        /\ (collectorConfig.capturePrompts /\ WithRole("user") # {}) =>
               ctx.userPrompt =
                   truncateAndMaybeRedact(
                       ctx.options.messages.list[Last(WithRole("user"))].content,
                       collectorConfig)
        /\ (collectorConfig.captureSystemPrompt /\ WithRole("system") # {}) =>
               ctx.systemPrompt =
                   truncateAndMaybeRedact(
                       ctx.options.messages.list[Last(WithRole("system"))].content,
                       collectorConfig)

\* The context was built from a list with two user and two system messages of
\* different contents and messages without a role in between and at the end,
\* under the default length and without redaction.
C31_Witness ==
    /\ ctx.pc = "settled"
    /\ collectorConfig.capturePrompts
    /\ collectorConfig.captureSystemPrompt
    /\ ~collectorConfig.redactSensitiveData
    /\ collectorConfig.maxContentLength = ContentLength
    /\ Cardinality(WithRole("user")) = 2
    /\ Cardinality(WithRole("system")) = 2
    /\ WithRole(NoRole) # {}
    /\ ctx.userPrompt = Plain
    /\ ctx.systemPrompt = Plain
    /\ ctx.options.messages.list[1].content = Email

\* The role whose last message feeds a prompt key.
RoleOf(key) == IF key = "prompt" THEN "user" ELSE "system"

\* C32: a record built with a prompt flag on, from a list whose last message
\* of that role has the empty string as content, has the key in its metadata
\* with the empty string as value (so that it differs from the record the same
\* call yields with the flag off, which has no such key).
C32_EmptyContentKeyPresent ==
    \A k \in 1..Len(accepted), key \in {"prompt", "systemPrompt"} :
        (/\ FlagOf(key)
         /\ WithRole(RoleOf(key)) # {}
         /\ ctx.options.messages.list[Last(WithRole(RoleOf(key)))].content = <<>>
         /\ key \notin DOMAIN ctx.options.metadata)
            => /\ key \in DOMAIN accepted[k].metadata
               /\ accepted[k].metadata[key] = <<>>

\* C33: the avgCompletionTokensPerSecond of every completion record is a
\* finite number, 0 when the elapsed time is 0 milliseconds, and otherwise
\* equal to completionTokens / (elapsedMs / 1000).
C33_TokensPerSecondFinite ==
    \A k \in 1..Len(accepted) :
        accepted[k].error = "undefined" =>
            LET avg == accepted[k].performance.avgCompletionTokensPerSecond
                elapsedMs == accepted[k].performance.msToFinish
            IN /\ avg.kind = "finite"
               /\ elapsedMs = 0 => avg.num = 0
               /\ elapsedMs > 0 =>
                      avg.num * elapsedMs =
                          accepted[k].usage.completionTokens * 1000 * avg.den

\* C34: every activation of flushBatch that has started its send eventually
\* returns to its caller (timer, sendTelemetry, forceFlush or destroy), also
\* when the network never answers.
C34_EveryFlushTerminates ==
    \A f \in 1..MaxRecords : (f \in DOMAIN flights) ~> (f \notin DOMAIN flights)

\* A flush captures a new batch in this step.
BatchCaptured == Len(captured') = Len(captured) + 1

\* C35: the batch a flush captures and hands to the network has size equal to
\* the number of its events, at least one event, and at most as many as the
\* batchSize configured at that moment, whatever calls came before.
C35_BatchWithinBatchSize ==
    [][BatchCaptured =>
           LET fl == flights'[Len(captured')]
           IN /\ fl.size = Len(fl.events)
              /\ Len(fl.events) >= 1
              /\ Len(fl.events) <= config'.batchSize]_vars

\* C36: a step in which the server answers a send with a 2xx status, whatever
\* the body, ends the flush of that batch as delivered with status connected:
\* no further send of the batch follows.
C36_OkResponseEndsTheBatch ==
    [][\A f \in 1..MaxRecords, res \in {"ok"} \cup BodyResults :
           SendCompletes(f, res) =>
               /\ connectionStatus' = "connected"
               /\ f \notin DOMAIN flights'
               /\ lastDone'.id = f
               /\ lastDone'.outcome = "delivered"]_vars

\* The k-th accepted record is in a captured batch whose send has been started.
SentOnce(k) ==
    /\ Len(Flatten(captured)) >= k
    /\ \A f \in DOMAIN flights : flights[f].sends >= 1

\* C37: with the interval timer firing as long as it is armed, every record
\* the sender accepted is eventually captured into a batch whose send has been
\* started; none stays in the pending queue forever.
C37_AcceptedEventuallySent ==
    \A k \in 1..MaxRecords : (Len(accepted) >= k) ~> SentOnce(k)

\* A record that waited in the queue below batchSize was captured by a firing
\* of the timer, and its send is under way.
C37_Witness ==
    /\ config.batchSize = MaxBatchSize
    /\ Len(accepted) = 1
    /\ batch = <<>>
    /\ \E f \in DOMAIN flights :
           /\ flights[f].w.op = "timer"
           /\ flights[f].sends = 1
           /\ flights[f].events = accepted

\* C38: once destroy has been called the interval timer is not armed, whatever
\* is called afterwards.
C38_NoTimerAfterDestroy == isDestroyed => ~batchTimer

\* destroy has been called and every call of it has resolved or rejected: none
\* of the running flushes is the one a destroy awaits.
DestroyCompleted ==
    /\ isDestroyed
    /\ \A f \in DOMAIN flights : flights[f].w.op # "destroy"

\* C39: when destroy has completed, no flush is running any more, neither
\* with a send in the air nor waiting to send again: every batch captured
\* before has been delivered or dropped.
C39_NothingInFlightAfterDestroy == DestroyCompleted => flights = <<>>

\* C40: whenever the connection status is connected, lastError is null.
C40_ConnectedMeansNoError == connectionStatus = "connected" => lastError = "null"
====
